---- MODULE Spec2Model ----
(***************************************************************************)
(* State-machine model of src/src/iot_device.py (class IoTDevice).         *)
(*                                                                         *)
(* Python floats are modelled as exact rationals <<numerator,denominator>> *)
(* in lowest terms (denominator > 0); float('inf') is <<1, 0>>.  Every     *)
(* arithmetic expression of the source is translated operator by operator  *)
(* (RAdd, RSub, RMul, RDiv) and every comparison by cross multiplication.  *)
(***************************************************************************)
EXTENDS Integers, Sequences, FiniteSets, TLC

(***************************************************************************)
(* Bounds of the exploration.                                              *)
(***************************************************************************)
\* number of operations called on the device in one behaviour
MaxSteps == 2
\* longest candidate list handed to should_offload_task
MaxNodes == 2

(***************************************************************************)
(* Float arithmetic.                                                       *)
(***************************************************************************)
Abs(n) == IF n < 0 THEN -n ELSE n

RECURSIVE GCD(_, _)
GCD(a, b) == IF b = 0 THEN a ELSE GCD(b, a % b)

\* the float n/d, d > 0
Rat(n, d) == LET g == GCD(Abs(n), d) IN <<n \div g, d \div g>>

R(n) == <<n, 1>>
Inf == <<1, 0>>

RAdd(a, b) == Rat(a[1] * b[2] + b[1] * a[2], a[2] * b[2])
RSub(a, b) == Rat(a[1] * b[2] - b[1] * a[2], a[2] * b[2])
RMul(a, b) == Rat(a[1] * b[1], a[2] * b[2])
\* a / b for b # 0 (the configuration guarantees non-zero divisors)
RDiv(a, b) == IF b[1] > 0 THEN Rat(a[1] * b[2], a[2] * b[1])
                          ELSE Rat(-(a[1] * b[2]), a[2] * (-b[1]))
RLt(a, b) == a[1] * b[2] < b[1] * a[2]
RLe(a, b) == a[1] * b[2] <= b[1] * a[2]
RGt(a, b) == RLt(b, a)

\* x ** 0.5 on the perfect squares the node and device positions produce
Sqrt(n) == CHOOSE r \in 0..n : r * r = n

\* str(n) for n >= 0: the decimal digits, one character per element
DigitChar(d) == <<"0", "1", "2", "3", "4", "5", "6", "7", "8", "9">>[d + 1]

RECURSIVE Digits(_)
Digits(n) == IF n < 10 THEN <<DigitChar(n)>>
                       ELSE Digits(n \div 10) \o <<DigitChar(n % 10)>>

\* Python's None
None == <<>>

(***************************************************************************)
(* Configuration handed to __init__ (config dict) and the collaborators.   *)
(***************************************************************************)
\* config['iot_devices']['types']
DeviceTypes ==
  { [name |-> "sensor", mips |-> 500, ram |-> 64,
     battery_capacity |-> R(3), battery_consumption_rate |-> R(1),
     task_generation_rate |-> Rat(1, 2), wireless_technology |-> "BLE",
     mobility |-> FALSE],
    [name |-> "smartphone", mips |-> 2000, ram |-> 4096,
     battery_capacity |-> R(6), battery_consumption_rate |-> R(2),
     task_generation_rate |-> R(1), wireless_technology |-> "LTE",
     mobility |-> TRUE],
    [name |-> "laptop", mips |-> 5000, ram |-> 8192,
     battery_capacity |-> R(3), battery_consumption_rate |-> R(1),
     task_generation_rate |-> Rat(1, 2), wireless_technology |-> "WiFi",
     mobility |-> FALSE],
    [name |-> "gateway", mips |-> 5000, ram |-> 8192,
     battery_capacity |-> R(4), battery_consumption_rate |-> Rat(1, 2),
     task_generation_rate |-> R(0), wireless_technology |-> "Zigbee",
     mobility |-> TRUE] }

\* config['network']['technologies'][wireless_tech]
NetworkParams(tech) ==
  CASE tech = "WiFi" -> [bandwidth_mbps |-> R(8), latency_ms |-> R(250),
                         reliability |-> Rat(9, 10), energy_consumption |-> Rat(1, 2)]
    [] tech = "BLE"  -> [bandwidth_mbps |-> R(2), latency_ms |-> R(50),
                         reliability |-> Rat(4, 5), energy_consumption |-> Rat(1, 10)]
    [] tech = "LTE"  -> [bandwidth_mbps |-> R(100), latency_ms |-> R(40),
                         reliability |-> Rat(19, 20), energy_consumption |-> R(1)]
    [] OTHER         -> [bandwidth_mbps |-> R(1), latency_ms |-> R(100),
                         reliability |-> Rat(1, 2), energy_consumption |-> Rat(1, 5)]

\* config['offloading_policy']
OffloadingPolicies ==
  { [threshold_battery_level |-> Rat(1, 5), threshold_task_size |-> R(1000000),
     threshold_network_quality |-> Rat(1, 20),
     weight_energy |-> R(0), weight_latency |-> R(1), weight_cost |-> R(0)],
    [threshold_battery_level |-> Rat(1, 2), threshold_task_size |-> R(1000000),
     threshold_network_quality |-> Rat(1, 2),
     weight_energy |-> Rat(1, 2), weight_latency |-> Rat(3, 10),
     weight_cost |-> Rat(1, 5)] }

\* random.uniform(0, 1000) for the two coordinates
InitLocations == { <<8, 3>> }

\* the EdgeNode objects of the simulation
EdgeNodePool ==
  << [node_id |-> 1, location |-> <<4, 0>>, mips |-> 10000,
      cost_per_mips |-> Rat(1, 10000), utilization |-> Rat(1, 10)],
     [node_id |-> 2, location |-> <<4, 6>>, mips |-> 20000,
      cost_per_mips |-> Rat(1, 5000), utilization |-> Rat(1, 10)],
     [node_id |-> 3, location |-> <<0, 3>>, mips |-> 10000,
      cost_per_mips |-> Rat(1, 20000), utilization |-> Rat(1, 2)] >>

\* the Task objects the caller holds (created by the Task class)
NewTask(id, type, dev, created, mipsReq, inSize) ==
  [task_id |-> id, task_type |-> type, device_id |-> dev,
   creation_time |-> created, mips_required |-> mipsReq, input_size |-> inSize,
   start_time |-> None, completion_time |-> None, executed_on |-> None,
   status |-> "created"]

TaskPool ==
  << NewTask(<<"7", "_", "0">>, "medium", 7, R(0), 5000, 250000),
     NewTask(<<"7", "_", "1">>, "lightweight", 7, R(0), 500, 2000000),
     NewTask(<<"7", "_", "2">>, "intensive", 7, R(0), 8000, 2000000) >>

\* arguments of the calls
Elapsed == { R(0), R(1), R(3) }
Times == { R(0), Rat(5, 2) }
\* random.random()
Samples == { Rat(1, 2), Rat(3, 4) }
DeviceId == 12

RECURSIVE SeqsNoRepeat(_, _)
SeqsNoRepeat(S, n) ==
  IF n = 0 THEN { <<>> }
  ELSE LET shorter == SeqsNoRepeat(S, n - 1)
       IN shorter \cup { Append(q, x) : q \in { p \in shorter : Len(p) = n - 1 },
                                         x \in S }
\* the edge_nodes lists: node indices into the pool, no node twice
NodeLists == { l \in SeqsNoRepeat(DOMAIN EdgeNodePool, MaxNodes) :
                 \A i, j \in DOMAIN l : i # j => l[i] # l[j] }

(***************************************************************************)
(* State.                                                                  *)
(***************************************************************************)
VARIABLES
  self,      \* the IoTDevice object: its attributes
  tasks,     \* the Task objects
  nodes,     \* the EdgeNode objects
  call,      \* the last call made on the device and its arguments
  ret,       \* what that call returned (or the exception it raised)
  emitted,   \* the tasks generate_task returned so far, in order
  depletions, \* how many update_battery calls took the depletion branch
  steps      \* number of calls made

vars == <<self, tasks, nodes, call, ret, emitted, depletions, steps>>

\* IoTDevice.__init__
Init ==
  /\ \E device_config \in DeviceTypes, loc \in InitLocations,
        policy \in OffloadingPolicies :
       self = [device_id |-> DeviceId,
               device_type |-> device_config.name,
               mips |-> device_config.mips,
               ram |-> device_config.ram,
               battery_capacity |-> device_config.battery_capacity,
               current_battery |-> device_config.battery_capacity,
               battery_consumption_rate |-> device_config.battery_consumption_rate,
               task_generation_rate |-> device_config.task_generation_rate,
               wireless_tech |-> device_config.wireless_technology,
               mobility |-> device_config.mobility,
               location |-> loc,
               connected_edge_node |-> None,
               network_params |-> NetworkParams(device_config.wireless_technology),
               offloading_policy |-> policy,
               tasks_generated |-> 0,
               tasks_offloaded |-> 0,
               tasks_processed_locally |-> 0,
               energy_consumed |-> R(0)]
  /\ tasks = TaskPool
  /\ nodes = EdgeNodePool
  /\ call = [op |-> "__init__"]
  /\ ret = None
  /\ emitted = <<>>
  /\ depletions = 0
  /\ steps = 0

(***************************************************************************)
(* update_battery                                                          *)
(***************************************************************************)
\* variant: the depletion test is "< 0" instead of "<= 0"
update_battery_StrictClamp(time_elapsed) ==
  LET consumption == RMul(self.battery_consumption_rate, time_elapsed)
      level == RSub(self.current_battery, consumption)
      depleted == RLt(level, R(0))
  IN /\ steps < MaxSteps
     /\ self' = [self EXCEPT
                   !.current_battery = IF depleted THEN R(0) ELSE level,
                   !.energy_consumed = RAdd(self.energy_consumed, consumption)]
     /\ ret' = ~depleted
     /\ depletions' = IF depleted THEN depletions + 1 ELSE depletions
     /\ call' = [op |-> "update_battery", time_elapsed |-> time_elapsed]
     /\ steps' = steps + 1
     /\ UNCHANGED <<tasks, nodes, emitted>>

update_battery(time_elapsed) ==
  LET consumption == RMul(self.battery_consumption_rate, time_elapsed)
      level == RSub(self.current_battery, consumption)
      depleted == RLe(level, R(0))
  IN /\ steps < MaxSteps
     /\ self' = [self EXCEPT
                   !.current_battery = IF depleted THEN R(0) ELSE level,
                   !.energy_consumed = RAdd(self.energy_consumed, consumption)]
     /\ ret' = ~depleted
     /\ depletions' = IF depleted THEN depletions + 1 ELSE depletions
     /\ call' = [op |-> "update_battery", time_elapsed |-> time_elapsed]
     /\ steps' = steps + 1
     /\ UNCHANGED <<tasks, nodes, emitted>>

(***************************************************************************)
(* generate_task                                                           *)
(***************************************************************************)
\* the task types random.choice can pick for a device of this capability
TaskTypeChoices(mips) ==
  IF mips < 1000 THEN { "lightweight" }
  ELSE IF mips < 3000 THEN { "lightweight", "medium" }
  ELSE { "lightweight", "medium", "intensive" }

\* f"{device_id}_{tasks_generated}"
TaskId(device_id, n) == Digits(device_id) \o <<"_">> \o Digits(n)

\* variant: the sequence number is not advanced after an emission
generate_task_NoIncrement(simulation_time, sample, task_type) ==
  /\ steps < MaxSteps
  /\ IF RLe(sample, self.task_generation_rate)
     THEN LET task_id == TaskId(self.device_id, self.tasks_generated)
              new_task == [task_id |-> task_id, task_type |-> task_type,
                           device_id |-> self.device_id,
                           creation_time |-> simulation_time]
          IN /\ task_type \in TaskTypeChoices(self.mips)
             /\ self' = self
             /\ ret' = new_task
             /\ emitted' = Append(emitted, new_task)
     ELSE /\ task_type = "lightweight"
          /\ ret' = None
          /\ UNCHANGED <<self, emitted>>
  /\ call' = [op |-> "generate_task", simulation_time |-> simulation_time]
  /\ steps' = steps + 1
  /\ UNCHANGED <<tasks, nodes, depletions>>

\* sample is the value of random.random(), task_type that of random.choice
generate_task(simulation_time, sample, task_type) ==
  /\ steps < MaxSteps
  /\ IF RLe(sample, self.task_generation_rate)
     THEN LET task_id == TaskId(self.device_id, self.tasks_generated)
              new_task == [task_id |-> task_id, task_type |-> task_type,
                           device_id |-> self.device_id,
                           creation_time |-> simulation_time]
          IN /\ task_type \in TaskTypeChoices(self.mips)
             /\ self' = [self EXCEPT !.tasks_generated = @ + 1]
             /\ ret' = new_task
             /\ emitted' = Append(emitted, new_task)
     ELSE /\ task_type = "lightweight"
          /\ ret' = None
          /\ UNCHANGED <<self, emitted>>
  /\ call' = [op |-> "generate_task", simulation_time |-> simulation_time]
  /\ steps' = steps + 1
  /\ UNCHANGED <<tasks, nodes, depletions>>

(***************************************************************************)
(* _select_best_edge_node                                                  *)
(***************************************************************************)
\* EdgeNode.get_utilization()
get_utilization(node) == node.utilization

DistanceWeight(tech) ==
  CASE tech = "WiFi"  -> R(1)
    [] tech = "BLE"   -> Rat(3, 2)
    [] tech = "LTE"   -> Rat(7, 10)
    [] tech = "FiveG" -> Rat(1, 2)
    [] OTHER          -> R(1)

Distance(p, q) ==
  R(Sqrt((p[1] - q[1]) * (p[1] - q[1]) + (p[2] - q[2]) * (p[2] - q[2])))

Score(s, node) ==
  LET distance == Distance(s.location, node.location)
      load_factor == get_utilization(node)
      distance_weight == DistanceWeight(s.wireless_tech)
  IN RAdd(RMul(distance, distance_weight), RMul(load_factor, R(100)))

\* the for loop from position i on, with the running best_node and best_score
RECURSIVE SelectLoop(_, _, _, _, _)
SelectLoop(s, edge_nodes, i, best_node, best_score) ==
  IF i > Len(edge_nodes) THEN best_node
  ELSE LET node == edge_nodes[i]
           score == Score(s, node)
       IN IF RLt(score, best_score)
          THEN SelectLoop(s, edge_nodes, i + 1, node, score)
          ELSE SelectLoop(s, edge_nodes, i + 1, best_node, best_score)

\* variant: the loop replaces the best node on "<=", so the last minimum wins
RECURSIVE SelectLoop_LastWins(_, _, _, _, _)
SelectLoop_LastWins(s, edge_nodes, i, best_node, best_score) ==
  IF i > Len(edge_nodes) THEN best_node
  ELSE LET node == edge_nodes[i]
           score == Score(s, node)
       IN IF RLe(score, best_score)
          THEN SelectLoop_LastWins(s, edge_nodes, i + 1, node, score)
          ELSE SelectLoop_LastWins(s, edge_nodes, i + 1, best_node, best_score)

SelectBest_LastWins(s, edge_nodes) ==
  IF edge_nodes = <<>> THEN None
  ELSE SelectLoop_LastWins(s, edge_nodes, 1, None, Inf)

SelectBest(s, edge_nodes) ==
  IF edge_nodes = <<>> THEN None
  ELSE SelectLoop(s, edge_nodes, 1, None, Inf)

(***************************************************************************)
(* should_offload_task                                                     *)
(***************************************************************************)
\* line 129: battery too low
BatteryLow(s) ==
  RLt(RDiv(s.current_battery, s.battery_capacity),
      s.offloading_policy.threshold_battery_level)

\* line 133: task too intensive for the device
TooIntensive(s, task) == task.mips_required > s.mips

\* lines 137-142: large task over a good enough network
LargeOnGoodNetwork(s, task) ==
  /\ RGt(R(task.input_size), s.offloading_policy.threshold_task_size)
  /\ LET network_quality ==
            RMul(s.network_params.reliability,
                 RDiv(s.network_params.bandwidth_mbps, R(100)))
     IN RGt(network_quality, s.offloading_policy.threshold_network_quality)

LocalCompletionTime(s, task) == RDiv(R(task.mips_required), R(s.mips))

TransferTime(s, task) ==
  RDiv(R(task.input_size), RMul(s.network_params.bandwidth_mbps, R(125000)))

LocalUtility(s, task) ==
  LET local_energy == RMul(RMul(RDiv(R(task.mips_required), R(s.mips)),
                                s.battery_consumption_rate), R(2))
  IN RAdd(RMul(s.offloading_policy.weight_energy, local_energy),
          RMul(s.offloading_policy.weight_latency, LocalCompletionTime(s, task)))

EdgeUtility(s, task, best_edge_node) ==
  LET latency_sec == RDiv(s.network_params.latency_ms, R(1000))
      transfer_time == TransferTime(s, task)
      edge_processing_time == RDiv(R(task.mips_required), R(best_edge_node.mips))
      edge_completion_time ==
        RAdd(RAdd(latency_sec, transfer_time), edge_processing_time)
      edge_energy == RMul(transfer_time, s.network_params.energy_consumption)
  IN RAdd(RAdd(RMul(s.offloading_policy.weight_energy, edge_energy),
               RMul(s.offloading_policy.weight_latency, edge_completion_time)),
          RMul(s.offloading_policy.weight_cost,
               RMul(R(task.mips_required), best_edge_node.cost_per_mips)))

\* variant: the node lookup comes first and an empty list means local execution
OffloadDecision_NodesFirst(s, task, edge_nodes) ==
  LET best_edge_node == SelectBest(s, edge_nodes)
  IN IF best_edge_node = None THEN FALSE
     ELSE IF BatteryLow(s) THEN TRUE
     ELSE IF TooIntensive(s, task) THEN TRUE
     ELSE IF LargeOnGoodNetwork(s, task) THEN TRUE
     ELSE RLt(EdgeUtility(s, task, best_edge_node), LocalUtility(s, task))

\* variant: the utilities are compared with "<=", so a tie offloads
OffloadDecision_TieOffloads(s, task, edge_nodes) ==
  IF BatteryLow(s) THEN TRUE
  ELSE IF TooIntensive(s, task) THEN TRUE
  ELSE IF LargeOnGoodNetwork(s, task) THEN TRUE
  ELSE LET best_edge_node == SelectBest(s, edge_nodes)
       IN IF best_edge_node # None
          THEN RLe(EdgeUtility(s, task, best_edge_node), LocalUtility(s, task))
          ELSE FALSE

\* the value should_offload_task returns
OffloadDecision(s, task, edge_nodes) ==
  IF BatteryLow(s) THEN TRUE
  ELSE IF TooIntensive(s, task) THEN TRUE
  ELSE IF LargeOnGoodNetwork(s, task) THEN TRUE
  ELSE LET best_edge_node == SelectBest(s, edge_nodes)
       IN IF best_edge_node # None
          THEN RLt(EdgeUtility(s, task, best_edge_node), LocalUtility(s, task))
          ELSE FALSE

\* the EdgeNode objects a list of pool indices denotes
Candidates(list) == [k \in 1..Len(list) |-> nodes[list[k]]]

\* a direct call of _select_best_edge_node; list is a list of indices into nodes
_select_best_edge_node(list) ==
  /\ steps < MaxSteps
  /\ ret' = SelectBest(self, Candidates(list))
  /\ call' = [op |-> "_select_best_edge_node", edge_nodes |-> list]
  /\ steps' = steps + 1
  /\ UNCHANGED <<self, tasks, nodes, emitted, depletions>>

\* variant: a positive decision is counted in tasks_offloaded
should_offload_task_Counts(task, list) ==
  LET decision == OffloadDecision(self, tasks[task], Candidates(list))
  IN /\ steps < MaxSteps
     /\ ret' = decision
     /\ self' = IF decision THEN [self EXCEPT !.tasks_offloaded = @ + 1] ELSE self
     /\ call' = [op |-> "should_offload_task", task |-> task, edge_nodes |-> list]
     /\ steps' = steps + 1
     /\ UNCHANGED <<tasks, nodes, emitted, depletions>>

\* task is an index into tasks, list a list of indices into nodes
should_offload_task(task, list) ==
  /\ steps < MaxSteps
  /\ ret' = OffloadDecision(self, tasks[task], Candidates(list))
  /\ call' = [op |-> "should_offload_task", task |-> task, edge_nodes |-> list]
  /\ steps' = steps + 1
  /\ UNCHANGED <<self, tasks, nodes, emitted, depletions>>

(***************************************************************************)
(* process_task_locally                                                    *)
(***************************************************************************)
\* the body of process_task_locally with the energy charged to the battery
\* (drain) and to the consumption counter (charge) given separately
ProcessVariant(task, current_time, drain, charge) ==
  LET execution_time == RDiv(R(tasks[task].mips_required), R(self.mips))
      completion_time == RAdd(current_time, execution_time)
  IN /\ steps < MaxSteps
     /\ tasks' = [tasks EXCEPT
                    ![task].start_time = current_time,
                    ![task].completion_time = completion_time,
                    ![task].executed_on =
                       <<"d", "e", "v", "i", "c", "e", "_">> \o Digits(self.device_id),
                    ![task].status = "processing"]
     /\ self' = [self EXCEPT
                   !.tasks_processed_locally = @ + 1,
                   !.current_battery = RSub(self.current_battery, drain),
                   !.energy_consumed = RAdd(self.energy_consumed, charge)]
     /\ ret' = completion_time
     /\ call' = [op |-> "process_task_locally", task |-> task,
                 current_time |-> current_time]
     /\ steps' = steps + 1
     /\ UNCHANGED <<nodes, emitted, depletions>>

\* variant: the energy of the execution is charged without the factor 2
process_task_locally_NoDouble(task, current_time) ==
  LET energy_used == RMul(RDiv(R(tasks[task].mips_required), R(self.mips)),
                          self.battery_consumption_rate)
  IN ProcessVariant(task, current_time, energy_used, energy_used)

\* variant: the battery is drained but energy_consumed is not increased
process_task_locally_NoCharge(task, current_time) ==
  LET energy_used == RMul(RMul(RDiv(R(tasks[task].mips_required), R(self.mips)),
                               self.battery_consumption_rate), R(2))
  IN ProcessVariant(task, current_time, energy_used, R(0))

process_task_locally(task, current_time) ==
  LET execution_time == RDiv(R(tasks[task].mips_required), R(self.mips))
      completion_time == RAdd(current_time, execution_time)
      energy_used == RMul(RMul(execution_time, self.battery_consumption_rate), R(2))
  IN /\ steps < MaxSteps
     /\ tasks' = [tasks EXCEPT
                    ![task].start_time = current_time,
                    ![task].completion_time = completion_time,
                    ![task].executed_on =
                       <<"d", "e", "v", "i", "c", "e", "_">> \o Digits(self.device_id),
                    ![task].status = "processing"]
     /\ self' = [self EXCEPT
                   !.tasks_processed_locally = @ + 1,
                   !.current_battery = RSub(self.current_battery, energy_used),
                   !.energy_consumed = RAdd(self.energy_consumed, energy_used)]
     /\ ret' = completion_time
     /\ call' = [op |-> "process_task_locally", task |-> task,
                 current_time |-> current_time]
     /\ steps' = steps + 1
     /\ UNCHANGED <<nodes, emitted, depletions>>

(***************************************************************************)
(* update_location                                                         *)
(***************************************************************************)
\* a mobile device reaches math.cos with the math module never imported:
\* the call raises NameError before self.location is assigned
update_location(time_elapsed) ==
  /\ steps < MaxSteps
  /\ ret' = IF ~self.mobility THEN None ELSE [exception |-> "NameError"]
  /\ call' = [op |-> "update_location", time_elapsed |-> time_elapsed]
  /\ steps' = steps + 1
  /\ UNCHANGED <<self, tasks, nodes, emitted, depletions>>

Next ==
  \/ \E t \in Elapsed : update_battery(t)
  \/ \E t \in Times, x \in Samples, ty \in { "lightweight", "medium", "intensive" } :
       generate_task(t, x, ty)
  \/ \E i \in DOMAIN tasks, l \in NodeLists : should_offload_task(i, l)
  \/ \E l \in NodeLists : _select_best_edge_node(l)
  \/ \E i \in DOMAIN tasks, t \in Times : process_task_locally(i, t)
  \/ \E t \in Elapsed : update_location(t)

Spec == Init /\ [][Next]_vars

(***************************************************************************)
(* Properties.                                                             *)
(***************************************************************************)
IsCall(c, name) == c.op = name

\* C1: in every reachable state 0 <= current_battery <= battery_capacity.
C1_BatteryInRange ==
  /\ RLe(R(0), self.current_battery)
  /\ RLe(self.current_battery, self.battery_capacity)

\* C2: should_offload_task returns true whenever the battery fraction is
\* below threshold_battery_level or the task needs more MIPS than the device
\* has, whatever the payload size, the network parameters and the node list.
C2_ForcedOffload ==
  [][ (/\ IsCall(call', "should_offload_task")
       /\ \/ RLt(RDiv(self.current_battery, self.battery_capacity),
                 self.offloading_policy.threshold_battery_level)
          \/ tasks[call'.task].mips_required > self.mips)
      => ret' = TRUE ]_vars

\* a forced offload decided with no edge node at all
C2_Witness ==
  /\ IsCall(call, "should_offload_task")
  /\ call.edge_nodes = <<>>
  /\ RLt(RDiv(self.current_battery, self.battery_capacity),
         self.offloading_policy.threshold_battery_level)
  /\ tasks[call.task].mips_required <= self.mips
  /\ ret = TRUE

\* none of the three override rules of should_offload_task applies
NoRuleFires(s, task) ==
  /\ ~RLt(RDiv(s.current_battery, s.battery_capacity),
          s.offloading_policy.threshold_battery_level)
  /\ task.mips_required <= s.mips
  /\ ~(/\ RGt(R(task.input_size), s.offloading_policy.threshold_task_size)
       /\ RGt(RMul(s.network_params.reliability,
                   RDiv(s.network_params.bandwidth_mbps, R(100))),
              s.offloading_policy.threshold_network_quality))

\* C3: when none of rules 1-3 fires, should_offload_task returns true iff
\* the node list is non-empty and the utility of the node chosen by
\* _select_best_edge_node is strictly below the local utility; an empty
\* list or a tie gives false.
C3_UtilityDecision ==
  [][ (/\ IsCall(call', "should_offload_task")
       /\ NoRuleFires(self, tasks[call'.task]))
      => LET task == tasks[call'.task]
             edge_nodes == Candidates(call'.edge_nodes)
         IN ret' = (/\ edge_nodes # <<>>
                    /\ RLt(EdgeUtility(self, task, SelectBest(self, edge_nodes)),
                           LocalUtility(self, task))) ]_vars

\* the utilities are equal and the task stays local
C3_Witness ==
  /\ IsCall(call, "should_offload_task")
  /\ NoRuleFires(self, tasks[call.task])
  /\ call.edge_nodes # <<>>
  /\ EdgeUtility(self, tasks[call.task], SelectBest(self, Candidates(call.edge_nodes)))
       = LocalUtility(self, tasks[call.task])
  /\ ret = FALSE

\* C4: _select_best_edge_node returns None exactly for the empty list;
\* otherwise it returns the candidate of lowest index among those whose
\* score is the minimum over the list.
C4_SelectBest ==
  [][ IsCall(call', "_select_best_edge_node")
      => LET edge_nodes == Candidates(call'.edge_nodes)
         IN /\ (ret' = None) <=> (edge_nodes = <<>>)
            /\ edge_nodes # <<>> =>
                 \E k \in DOMAIN edge_nodes :
                   /\ ret' = edge_nodes[k]
                   /\ \A j \in DOMAIN edge_nodes :
                        RLe(Score(self, edge_nodes[k]), Score(self, edge_nodes[j]))
                   /\ \A j \in 1..(k - 1) :
                        RLt(Score(self, edge_nodes[k]), Score(self, edge_nodes[j])) ]_vars

\* two candidates of equal score, the first one returned
C4_Witness ==
  /\ IsCall(call, "_select_best_edge_node")
  /\ Len(call.edge_nodes) >= 2
  /\ Score(self, nodes[call.edge_nodes[1]]) = Score(self, nodes[call.edge_nodes[2]])
  /\ ret = nodes[call.edge_nodes[1]]

\* C5: process_task_locally returns and stores current_time +
\* mips_required / mips, sets start_time and status "processing", adds 1 to
\* tasks_processed_locally and (mips_required / mips) x rate x 2 to
\* energy_consumed, whatever the battery level.
C5_ProcessLocally ==
  [][ IsCall(call', "process_task_locally")
      => LET i == call'.task
             execution_time == RDiv(R(tasks[i].mips_required), R(self.mips))
         IN /\ ret' = RAdd(call'.current_time, execution_time)
            /\ tasks'[i].completion_time = RAdd(call'.current_time, execution_time)
            /\ tasks'[i].start_time = call'.current_time
            /\ tasks'[i].status = "processing"
            /\ self'.tasks_processed_locally = self.tasks_processed_locally + 1
            /\ self'.energy_consumed =
                 RAdd(self.energy_consumed,
                      RMul(RMul(execution_time, self.battery_consumption_rate),
                           R(2))) ]_vars

\* a task processed on a device whose battery was already empty
C5_Witness ==
  /\ IsCall(call, "process_task_locally")
  /\ depletions > 0
  /\ RLt(self.current_battery, R(0))
  /\ tasks[call.task].status = "processing"
  /\ self.tasks_processed_locally = 1

\* C6: should_offload_task changes nothing: the device's attributes, the
\* tasks and the edge nodes are the same after the call, on every return
\* path.
C6_ReadOnly ==
  [][ IsCall(call', "should_offload_task")
      => /\ self' = self
         /\ tasks' = tasks
         /\ nodes' = nodes ]_vars

\* a positive decision taken by the utility comparison after the device has
\* drained some of its battery
C6_Witness ==
  /\ IsCall(call, "should_offload_task")
  /\ NoRuleFires(self, tasks[call.task])
  /\ call.edge_nodes # <<>>
  /\ ret = TRUE
  /\ RLt(self.current_battery, self.battery_capacity)

\* C7: update_battery adds rate x time_elapsed to energy_consumed; it
\* returns False exactly when the level after subtraction is <= 0, leaving
\* current_battery at 0, and True otherwise, leaving the subtracted level;
\* it never raises; on a device that has been depleted it returns False
\* again with current_battery = 0.
C7_UpdateBattery ==
  [][ IsCall(call', "update_battery")
      => LET consumption == RMul(self.battery_consumption_rate, call'.time_elapsed)
             level == RSub(self.current_battery, consumption)
         IN /\ ret' \in BOOLEAN
            /\ self'.energy_consumed = RAdd(self.energy_consumed, consumption)
            /\ (ret' = FALSE) <=> RLe(level, R(0))
            /\ RLe(level, R(0)) => self'.current_battery = R(0)
            /\ ~RLe(level, R(0)) => self'.current_battery = level
            /\ depletions > 0 => (ret' = FALSE /\ self'.current_battery = R(0)) ]_vars

\* a second update_battery call on a depleted device
C7_Witness ==
  /\ IsCall(call, "update_battery")
  /\ depletions >= 2
  /\ ret = FALSE
  /\ self.current_battery = R(0)

\* C8: every emitted task has the id "<device_id>_<n>", n the number of
\* tasks emitted before it; no two emitted tasks share an id; tasks_generated
\* grows by 1 on an emission and is unchanged when None is returned.
C8_TaskIds ==
  /\ [](\A i, j \in DOMAIN emitted :
          i # j => emitted[i].task_id # emitted[j].task_id)
  /\ [][ IsCall(call', "generate_task")
         => IF ret' # None
            THEN /\ ret'.task_id =
                      Digits(self.device_id) \o <<"_">> \o Digits(Len(emitted))
                 /\ self'.tasks_generated = self.tasks_generated + 1
            ELSE self'.tasks_generated = self.tasks_generated ]_vars

\* two tasks emitted by the same device, numbered 0 and 1
C8_Witness ==
  /\ Len(emitted) >= 2
  /\ emitted[1].task_id = <<"1", "2", "_", "0">>
  /\ emitted[2].task_id = <<"1", "2", "_", "1">>

\* C9: current_battery never increases along a step.
C9_NonIncreasing ==
  [][ RLe(self'.current_battery, self.current_battery) ]_vars

\* C10: current_battery + energy_consumed >= battery_capacity, with
\* equality as long as update_battery has not clamped the level.
C10_EnergyAccounting ==
  LET total == RAdd(self.current_battery, self.energy_consumed)
  IN /\ RLe(self.battery_capacity, total)
     /\ depletions = 0 => total = self.battery_capacity

\* the level was clamped and the sum exceeds the capacity
C10_Witness ==
  /\ depletions > 0
  /\ self.tasks_processed_locally > 0
  /\ RLt(self.battery_capacity, RAdd(self.current_battery, self.energy_consumed))
====
